---------------------------- MODULE Spec2Model ----------------------------
(***************************************************************************)
(* Recipe generation pipeline of "Google AI Studio Recipe Creator".        *)
(* Two variants of the same pipeline are modelled side by side:            *)
(*   "main" : main.py      (FastAPI service)                               *)
(*   "rg2"  : test/rg2.py  (stand-alone script)                            *)
(* Text is a sequence of one-character strings, so that lower(), split(),  *)
(* strip() and the substring test are computed, not assumed.               *)
(* Nutrient amounts are integers counting hundredths of a unit.            *)
(* An Optional value is None (the empty tuple) or Some(v) (a 1-tuple).     *)
(***************************************************************************)
EXTENDS Integers, Sequences, FiniteSets, TLC

\* ------------------------------------------------------------------------
\* Bounds of the model
\* ------------------------------------------------------------------------
MaxIngredients == 3
MaxToolCalls == 2
MaxItems == 1
MaxServings == 2

\* ------------------------------------------------------------------------
\* Python values
\* ------------------------------------------------------------------------
None == << >>
Some(v) == << v >>
Get(o) == o[1]

Variants == {"main", "rg2"}

\* dict.get(key, default) on a record
DictGet(d, k, default) == IF k \in DOMAIN d THEN d[k] ELSE default

\* ------------------------------------------------------------------------
\* str methods
\* ------------------------------------------------------------------------
UpperToLower ==
  [c \in {"A","B","C","D","E","F","G","H","I","J","K","L","M",
          "N","O","P","Q","R","S","T","U","V","W","X","Y","Z"} |->
     CASE c = "A" -> "a" [] c = "B" -> "b" [] c = "C" -> "c" [] c = "D" -> "d"
       [] c = "E" -> "e" [] c = "F" -> "f" [] c = "G" -> "g" [] c = "H" -> "h"
       [] c = "I" -> "i" [] c = "J" -> "j" [] c = "K" -> "k" [] c = "L" -> "l"
       [] c = "M" -> "m" [] c = "N" -> "n" [] c = "O" -> "o" [] c = "P" -> "p"
       [] c = "Q" -> "q" [] c = "R" -> "r" [] c = "S" -> "s" [] c = "T" -> "t"
       [] c = "U" -> "u" [] c = "V" -> "v" [] c = "W" -> "w" [] c = "X" -> "x"
       [] c = "Y" -> "y" [] c = "Z" -> "z"]

Whitespace == {" "}
Digits == {"0","1","2","3","4","5","6","7","8","9"}

\* s.lower()
str_lower(s) ==
  [i \in 1..Len(s) |-> IF s[i] \in DOMAIN UpperToLower THEN UpperToLower[s[i]] ELSE s[i]]

\* s.strip()
RECURSIVE str_lstrip(_)
str_lstrip(s) ==
  IF s # << >> /\ Head(s) \in Whitespace THEN str_lstrip(Tail(s)) ELSE s

RECURSIVE str_rstrip(_)
str_rstrip(s) ==
  IF s # << >> /\ s[Len(s)] \in Whitespace
  THEN str_rstrip(SubSeq(s, 1, Len(s) - 1)) ELSE s

str_strip(s) == str_rstrip(str_lstrip(s))

\* s.split(): split on runs of whitespace, no empty words
RECURSIVE str_split_ws(_, _, _)
str_split_ws(s, word, acc) ==
  IF s = << >>
  THEN IF word = << >> THEN acc ELSE Append(acc, word)
  ELSE IF Head(s) \in Whitespace
       THEN str_split_ws(Tail(s), << >>, IF word = << >> THEN acc ELSE Append(acc, word))
       ELSE str_split_ws(Tail(s), Append(word, Head(s)), acc)

str_split(s) == str_split_ws(s, << >>, << >>)

\* s.split(','): split on every comma, empty entries kept
RECURSIVE str_split_sep(_, _, _, _)
str_split_sep(s, sep, entry, acc) ==
  IF s = << >>
  THEN Append(acc, entry)
  ELSE IF Head(s) = sep
       THEN str_split_sep(Tail(s), sep, << >>, Append(acc, entry))
       ELSE str_split_sep(Tail(s), sep, Append(entry, Head(s)), acc)

str_split_on(s, sep) == str_split_sep(s, sep, << >>, << >>)

\* ' '.join(words)
RECURSIVE str_join(_)
str_join(words) ==
  IF words = << >> THEN << >>
  ELSE IF Len(words) = 1 THEN words[1]
  ELSE words[1] \o << " " >> \o str_join(Tail(words))

\* needle in hay
str_in(needle, hay) ==
  \E i \in 0..(Len(hay) - Len(needle)) : SubSeq(hay, i + 1, i + Len(needle)) = needle

\* w.replace('.', '')
str_remove_dots(w) == SelectSeq(w, LAMBDA c : c # ".")

\* w.isdigit()
str_isdigit(w) == w # << >> /\ \A i \in 1..Len(w) : w[i] \in Digits

\* ------------------------------------------------------------------------
\* compare_and_generate_shopping_list and its helpers
\* ------------------------------------------------------------------------
quantity_words ==
  { <<"c", "u", "p">>, <<"c", "u", "p", "s">>, <<"t", "a", "b", "l", "e", "s", "p", "o", "o", "n">>, <<"t", "a", "b", "l", "e", "s", "p", "o", "o", "n", "s">>, <<"t", "b", "s", "p">>, <<"t", "s", "p">>,
    <<"t", "e", "a", "s", "p", "o", "o", "n">>, <<"t", "e", "a", "s", "p", "o", "o", "n", "s">>, <<"o", "z">>, <<"l", "b">>, <<"l", "b", "s">>, <<"g", "r", "a", "m">>, <<"g", "r", "a", "m", "s">>,
    <<"g">>, <<"k", "g">>, <<"m", "l">>, <<"l">>, <<"l", "i", "t", "e", "r">>, <<"l", "i", "t", "e", "r", "s">>, <<"p", "i", "e", "c", "e">>, <<"p", "i", "e", "c", "e", "s">>,
    <<"p", "c", "s">>, <<"o", "f">>, <<"m", "e", "d", "i", "u", "m">>, <<"l", "a", "r", "g", "e">>, <<"s", "m", "a", "l", "l">>, <<"f", "r", "e", "s", "h">>, <<"d", "r", "i", "e", "d">> }

\* an extraction that compares the words with the stop-set before lower-casing
extract_ingredient_name_lower_last(ingredient_text) ==
  LET words == str_split(ingredient_text)
      ingredient_words ==
        SelectSeq(words, LAMBDA w : ~ str_isdigit(str_remove_dots(w))
                                    /\ w \notin quantity_words)
  IN IF ingredient_words # << >> THEN str_lower(str_join(ingredient_words))
     ELSE str_lower(ingredient_text)

extract_ingredient_name(ingredient_text) ==
  LET words == str_split(str_lower(ingredient_text))
      ingredient_words ==
        SelectSeq(words, LAMBDA w : ~ str_isdigit(str_remove_dots(w))
                                    /\ w \notin quantity_words)
  IN IF ingredient_words # << >> THEN str_join(ingredient_words)
     ELSE str_lower(ingredient_text)

\* the category table, in the order of the dict literal
categories ==
  << [category |-> "Produce",
      keywords |-> << <<"t", "o", "m", "a", "t", "o">>, <<"o", "n", "i", "o", "n">>, <<"g", "a", "r", "l", "i", "c">>, <<"p", "o", "t", "a", "t", "o">>, <<"v", "e", "g", "e", "t", "a", "b", "l", "e">>, <<"f", "r", "u", "i", "t">> >>],
     [category |-> "Grains",
      keywords |-> << <<"r", "i", "c", "e">>, <<"f", "l", "o", "u", "r">>, <<"p", "a", "s", "t", "a">>, <<"w", "h", "e", "a", "t">>, <<"b", "r", "e", "a", "d">> >>],
     [category |-> "Dairy",
      keywords |-> << <<"m", "i", "l", "k">>, <<"b", "u", "t", "t", "e", "r">>, <<"c", "h", "e", "e", "s", "e">>, <<"y", "o", "g", "u", "r", "t">>, <<"c", "r", "e", "a", "m">> >>],
     [category |-> "Proteins",
      keywords |-> << <<"e", "g", "g">>, <<"c", "h", "i", "c", "k", "e", "n">>, <<"m", "e", "a", "t">>, <<"f", "i", "s", "h">>, <<"t", "o", "f", "u">>, <<"b", "e", "a", "n", "s">> >>],
     [category |-> "Spices",
      keywords |-> << <<"p", "e", "p", "p", "e", "r">>, <<"s", "a", "l", "t">>, <<"t", "u", "r", "m", "e", "r", "i", "c">>, <<"c", "u", "m", "i", "n">>, <<"s", "p", "i", "c", "e">>, <<"h", "e", "r", "b">> >>],
     [category |-> "Oils & Condiments",
      keywords |-> << <<"o", "i", "l">>, <<"v", "i", "n", "e", "g", "a", "r">>, <<"s", "a", "u", "c", "e">>, <<"c", "o", "n", "d", "i", "m", "e", "n", "t">> >>] >>

RECURSIVE categorize_from(_, _)
categorize_from(ingredient_lower, i) ==
  IF i > Len(categories) THEN "Other"
  ELSE IF \E k \in 1..Len(categories[i].keywords) :
            str_in(categories[i].keywords[k], ingredient_lower)
       THEN categories[i].category
       ELSE categorize_from(ingredient_lower, i + 1)

\* a search that returns the last matching category of the table
RECURSIVE categorize_back_from(_, _)
categorize_back_from(ingredient_lower, i) ==
  IF i < 1 THEN "Other"
  ELSE IF \E k \in 1..Len(categories[i].keywords) :
            str_in(categories[i].keywords[k], ingredient_lower)
       THEN categories[i].category
       ELSE categorize_back_from(ingredient_lower, i - 1)

categorize_ingredient_last_match(ingredient) ==
  categorize_back_from(str_lower(ingredient), Len(categories))

categorize_ingredient(ingredient) == categorize_from(str_lower(ingredient), 1)

\* test/rg2.py: the module-level function with its own table
categories_rg2 ==
  << [category |-> "Produce",
      keywords |-> << <<"t", "o", "m", "a", "t", "o">>, <<"o", "n", "i", "o", "n">>, <<"g", "a", "r", "l", "i", "c">>, <<"p", "o", "t", "a", "t", "o">>, <<"v", "e", "g", "e", "t", "a", "b", "l", "e">>, <<"f", "r", "u", "i", "t">> >>],
     [category |-> "Grains",
      keywords |-> << <<"r", "i", "c", "e">>, <<"f", "l", "o", "u", "r">>, <<"p", "a", "s", "t", "a">>, <<"w", "h", "e", "a", "t">>, <<"b", "r", "e", "a", "d">> >>],
     [category |-> "Dairy",
      keywords |-> << <<"m", "i", "l", "k">>, <<"b", "u", "t", "t", "e", "r">>, <<"c", "h", "e", "e", "s", "e">>, <<"y", "o", "g", "u", "r", "t">>, <<"c", "r", "e", "a", "m">> >>],
     [category |-> "Proteins",
      keywords |-> << <<"e", "g", "g">>, <<"c", "h", "i", "c", "k", "e", "n">>, <<"m", "e", "a", "t">>, <<"f", "i", "s", "h">>, <<"t", "o", "f", "u">>, <<"b", "e", "a", "n", "s">> >>],
     [category |-> "Spices",
      keywords |-> << <<"p", "e", "p", "p", "e", "r">>, <<"s", "a", "l", "t">>, <<"t", "u", "r", "m", "e", "r", "i", "c">>, <<"c", "u", "m", "i", "n">>, <<"s", "p", "i", "c", "e">>, <<"h", "e", "r", "b">> >>],
     [category |-> "Oils & Condiments",
      keywords |-> << <<"o", "i", "l">>, <<"v", "i", "n", "e", "g", "a", "r">>, <<"s", "a", "u", "c", "e">>, <<"c", "o", "n", "d", "i", "m", "e", "n", "t">> >>] >>

RECURSIVE categorize_from_rg2(_, _)
categorize_from_rg2(ingredient_lower, i) ==
  IF i > Len(categories_rg2) THEN "Other"
  ELSE IF \E k \in 1..Len(categories_rg2[i].keywords) :
            str_in(categories_rg2[i].keywords[k], ingredient_lower)
       THEN categories_rg2[i].category
       ELSE categorize_from_rg2(ingredient_lower, i + 1)

categorize_ingredient_rg2(ingredient) == categorize_from_rg2(str_lower(ingredient), 1)

categorize(v, ingredient) ==
  IF v = "main" THEN categorize_ingredient(ingredient)
  ELSE categorize_ingredient_rg2(ingredient)

\* available_list = [item.strip().lower() for item in available_ingredients.split(',')]
parse_available_list(available_ingredients) ==
  LET entries == str_split_on(available_ingredients, ",")
  IN [i \in 1..Len(entries) |-> str_lower(str_strip(entries[i]))]

\* a comparison that only looks for the core name inside the pantry entry
is_available_main_one_way(ingredient, available_list) ==
  LET ingredient_name == extract_ingredient_name(ingredient)
  IN \E a \in 1..Len(available_list) : str_in(ingredient_name, available_list[a])

\* main.py: whole-string containment in either direction
is_available_main(ingredient, available_list) ==
  LET ingredient_name == extract_ingredient_name(ingredient)
  IN \E a \in 1..Len(available_list) :
        str_in(ingredient_name, available_list[a]) \/ str_in(available_list[a], ingredient_name)

\* a check whose "return True" sits one level too high: any pantry word will do
is_ingredient_available_any_word(recipe_ingredient, available_list) ==
  LET ingredient_words == str_split(extract_ingredient_name(recipe_ingredient))
  IN \E a \in 1..Len(available_list) :
       LET available_words == str_split(extract_ingredient_name(available_list[a]))
       IN \E i \in 1..Len(ingredient_words) :
            /\ Len(ingredient_words[i]) > 3
            /\ available_words # << >>

\* test/rg2.py: word-level containment, ingredient words of length <= 3 ignored
is_ingredient_available(recipe_ingredient, available_list) ==
  LET ingredient_words == str_split(extract_ingredient_name(recipe_ingredient))
  IN \E a \in 1..Len(available_list) :
       LET available_words == str_split(extract_ingredient_name(available_list[a]))
       IN \E i \in 1..Len(ingredient_words) :
            /\ Len(ingredient_words[i]) > 3
            /\ \E j \in 1..Len(available_words) :
                  \/ str_in(ingredient_words[i], available_words[j])
                  \/ str_in(available_words[j], ingredient_words[i])

is_available(v, ingredient, available_list) ==
  IF v = "main" THEN is_available_main(ingredient, available_list)
  ELSE is_ingredient_available(ingredient, available_list)

\* the shopping-list entry keeps the core name instead of the original phrase
purchase_item_core_name(ingredient, category) ==
  [item |-> extract_ingredient_name(ingredient), category |-> category,
   status |-> "need_to_purchase"]

\* the two branches of the loop body
available_item(ingredient, category) ==
  [item |-> ingredient, category |-> category, status |-> "available"]

purchase_item(ingredient, category) ==
  [item |-> ingredient, category |-> category, status |-> "need_to_purchase"]

\* for ingredient in recipe_ingredients: append to one of the two lists
RECURSIVE classify_loop(_, _, _, _, _)
classify_loop(v, recipe_ingredients, available_list, shopping_list, already_available) ==
  IF recipe_ingredients = << >>
  THEN [shopping_list |-> shopping_list, already_available |-> already_available]
  ELSE LET ingredient == Head(recipe_ingredients)
           category == categorize(v, ingredient)
       IN IF is_available(v, ingredient, available_list)
          THEN classify_loop(v, Tail(recipe_ingredients), available_list, shopping_list,
                             Append(already_available, available_item(ingredient, category)))
          ELSE classify_loop(v, Tail(recipe_ingredients), available_list,
                             Append(shopping_list, purchase_item(ingredient, category)),
                             already_available)

\* a Python dict is a sequence of [key, value] entries in insertion order
DictKeys(d) == { d[i].key : i \in 1..Len(d) }
DictIndex(d, k) == CHOOSE i \in 1..Len(d) : d[i].key = k
DictValue(d, k) == d[DictIndex(d, k)].value

\* a grouping that puts the newest item first
group_append_front(shopping_by_category, item) ==
  LET d == IF item.category \in DictKeys(shopping_by_category)
           THEN shopping_by_category
           ELSE Append(shopping_by_category, [key |-> item.category, value |-> << >>])
      i == DictIndex(d, item.category)
  IN [d EXCEPT ![i].value = << item.item >> \o @]

\* shopping_by_category[category].append(item['item']), creating the key on first use
group_append(shopping_by_category, item) ==
  LET d == IF item.category \in DictKeys(shopping_by_category)
           THEN shopping_by_category
           ELSE Append(shopping_by_category, [key |-> item.category, value |-> << >>])
      i == DictIndex(d, item.category)
  IN [d EXCEPT ![i].value = Append(@, item.item)]

RECURSIVE group_loop(_, _)
group_loop(shopping_list, shopping_by_category) ==
  IF shopping_list = << >> THEN shopping_by_category
  ELSE group_loop(Tail(shopping_list), group_append(shopping_by_category, Head(shopping_list)))

group_by_category(shopping_list) == group_loop(shopping_list, << >>)

\* a report that counts only the items to buy as needed
shopping_report_miscounted(recipe_ingredients, shopping_list, already_available) ==
  [items_to_purchase |-> shopping_list,
   items_available |-> already_available,
   shopping_by_category |-> group_by_category(shopping_list),
   total_items_needed |-> Len(shopping_list),
   items_to_buy |-> Len(shopping_list),
   items_in_stock |-> Len(already_available)]

\* the returned dict
shopping_report(recipe_ingredients, shopping_list, already_available) ==
  [items_to_purchase |-> shopping_list,
   items_available |-> already_available,
   shopping_by_category |-> group_by_category(shopping_list),
   total_items_needed |-> Len(recipe_ingredients),
   items_to_buy |-> Len(shopping_list),
   items_in_stock |-> Len(already_available)]

compare_and_generate_shopping_list(v, recipe_ingredients, available_ingredients) ==
  LET available_list == parse_available_list(available_ingredients)
      lists == classify_loop(v, recipe_ingredients, available_list, << >>, << >>)
  IN shopping_report(recipe_ingredients, lists.shopping_list, lists.already_available)

\* the report built when the tool produced nothing
empty_shopping_data ==
  [items_to_purchase |-> << >>,
   items_available |-> << >>,
   shopping_by_category |-> << >>,
   total_items_needed |-> 0,
   items_to_buy |-> 0,
   items_in_stock |-> 0]

\* ------------------------------------------------------------------------
\* get_nutrition_info
\* ------------------------------------------------------------------------
\* the seven tracked nutrients, in the order of the dict literal
nutrient_keys ==
  << "calories", "protein_g", "fat_total_g", "carbohydrates_total_g",
     "fiber_g", "sugar_g", "sodium_mg" >>

\* a sum that keeps only the value of the last item
sum_field_last_item(items, key) ==
  IF items = << >> THEN 0 ELSE DictGet(items[Len(items)], key, 0)

\* sum(item.get(key, 0) for item in items)
RECURSIVE sum_field(_, _)
sum_field(items, key) ==
  IF items = << >> THEN 0
  ELSE DictGet(Head(items), key, 0) + sum_field(Tail(items), key)

total_nutrition(items) ==
  [k \in { nutrient_keys[i] : i \in 1..Len(nutrient_keys) } |-> sum_field(items, k)]

\* lookup is what requests.get did: [exception |-> TRUE], or a response with a
\* status_code and, for status 200, the items of its JSON body
get_nutrition_info(lookup) ==
  IF "exception" \in DOMAIN lookup
  THEN [error |-> TRUE, message |-> "exception"]
  ELSE IF lookup.status_code # 200
       THEN [error |-> TRUE, status_code |-> lookup.status_code,
             message |-> "Failed to fetch nutrition data"]
       ELSE [success |-> TRUE,
             nutrition |-> total_nutrition(lookup.items),
             items_count |-> Len(lookup.items)]

\* nutrition_data.get('success') on an Optional dict
nutrition_succeeded(nutrition_data) ==
  /\ nutrition_data # None
  /\ DictGet(Get(nutrition_data), "success", FALSE)

\* a division that cuts the digits after the second decimal off
round_div_truncating(n, d) == n \div d

\* round(n / d, 2) on amounts counted in hundredths: nearest, ties to even
round_div(n, d) ==
  LET q == n \div d
      r == n % d
  IN IF 2 * r < d THEN q
     ELSE IF 2 * r > d THEN q + 1
     ELSE IF q % 2 = 0 THEN q ELSE q + 1

\* the default values used when the nutrition fetch failed (350.0, 15.0, ...)
fallback_nutrition ==
  [calories |-> 35000, protein_g |-> 1500, fat_total_g |-> 1200,
   carbohydrates_total_g |-> 4500, fiber_g |-> 500, sugar_g |-> 300,
   sodium_mg |-> 40000]

\* per-serving nutrition as the structuring stage computes it
per_serving_nutrition(nutrition_data, servings) ==
  IF nutrition_succeeded(nutrition_data)
  THEN LET total == Get(nutrition_data).nutrition
       IN [k \in DOMAIN total |-> round_div(total[k], servings)]
  ELSE fallback_nutrition

\* ------------------------------------------------------------------------
\* Inputs and what the external collaborators may answer (bounded samples)
\* ------------------------------------------------------------------------
SeqUpTo(S, n) == UNION { [1..k -> S] : k \in 0..n }

\* pantry texts handed to the entry function (the stages only quote them in prompts)
Pantries == { <<"r", "i", "c", "e", ",", " ", "o", "n", "i", "o", "n", "s", ",", " ", "g", "a", "r", "l", "i", "c">> }

\* dietary_restrictions lists
DietLists == { << >>, << "Dairy-free" >>, << "Vegan", "Nut-free", "Kosher" >> }

Cuisines == { "South Indian" }
Difficulties == { "Medium" }
CookingTimes == { 45, 50 }

\* free text of the generation capability
PlanTexts == { "plan A", "plan B" }
ShoppingTexts == { "shopping notes" }

\* item records of the nutrition lookup service (hundredths), one with fields missing
NutritionItems ==
  { [calories |-> 13050, protein_g |-> 270, fat_total_g |-> 30,
     carbohydrates_total_g |-> 2820, fiber_g |-> 40, sugar_g |-> 10, sodium_mg |-> 100],
    [calories |-> 101, sodium_mg |-> 7] }

\* outcomes of requests.get(url, headers=...)
Lookups ==
  { [exception |-> TRUE], [status_code |-> 500] }
    \cup { [status_code |-> 200, items |-> its] : its \in SeqUpTo(NutritionItems, MaxItems) }

\* arguments the capability passes to compare_and_generate_shopping_list
ShoppingArgs ==
  { [recipe_ingredients |-> << <<"2", " ", "c", "u", "p", "s", " ", "r", "i", "c", "e">>, <<"1", " ", "l", "b", " ", "c", "h", "i", "c", "k", "e", "n", " ", "b", "r", "e", "a", "s", "t">> >>,
     available_ingredients |-> <<"r", "i", "c", "e", ",", " ", "o", "n", "i", "o", "n", "s", ",", " ", "g", "a", "r", "l", "i", "c">>],
    [recipe_ingredients |-> << <<"1", " ", "l", "b", " ", "c", "h", "i", "c", "k", "e", "n", " ", "b", "r", "e", "a", "s", "t">>, <<"3", " ", "E", "g", "g", "s">> >>,
     available_ingredients |-> <<"e", "g", "g", "p", "l", "a", "n", "t", ",">>],
    [recipe_ingredients |-> << >>,
     available_ingredients |-> <<"r", "i", "c", "e", ",", " ", "o", "n", "i", "o", "n", "s", ",", " ", "g", "a", "r", "l", "i", "c">>] }

\* tool calls of a planning response: args_ok is FALSE when the arguments do not
\* fit the tool's signature, lookup is what the service answers to that call
PlanningToolCalls ==
  { [name |-> "compare_and_generate_shopping_list"],
    [name |-> "get_nutrition_info", args_ok |-> FALSE] }
    \cup { [name |-> "get_nutrition_info", args_ok |-> TRUE, lookup |-> l] : l \in Lookups }

ShoppingToolCalls ==
  { [name |-> "get_nutrition_info"],
    [name |-> "compare_and_generate_shopping_list", args_ok |-> FALSE] }
    \cup { [name |-> "compare_and_generate_shopping_list", args_ok |-> TRUE, args |-> a] :
             a \in ShoppingArgs }

\* llm.invoke(messages): it raises, or answers with content and tool_calls
LLMError == [error |-> "capability call failed"]

PlanningResponses ==
  { LLMError } \cup [content : PlanTexts, tool_calls : SeqUpTo(PlanningToolCalls, MaxToolCalls)]

ShoppingResponses ==
  { LLMError } \cup [content : ShoppingTexts, tool_calls : SeqUpTo(ShoppingToolCalls, MaxToolCalls)]

\* ------------------------------------------------------------------------
\* State
\* ------------------------------------------------------------------------
VARIABLES
  variant,                \* which file runs: "main" or "rg2"
  available_ingredients,  \* RecipeState fields
  dietary_restrictions,
  cuisine,
  difficulty,
  servings,
  cooking_time_minutes,
  recipe_plan,
  nutrition_data,
  shopping_data,
  final_recipe,
  messages,
  current_agent,
  errors,
  node,                   \* the graph node to run next
  trace,                  \* the nodes that have been started, in order
  exception,              \* Some(e) once an exception left a stage
  tool_input,             \* arguments of the last completed shopping-list tool call
  no_tool_calls,          \* the stages whose capability response carried no tool call
  returned,               \* Some(value) once the entry function has returned
  api_response,           \* main.py: response of /api/v1/recipe/generate
  tool_request,           \* direct tool invocation: the request
  tool_response,          \* direct tool invocation: the result
  ingredient_text,        \* direct helper calls: the ingredient phrase
  core_names,             \* results of extract_ingredient_name on the phrase, then on its own result
  ingredient_category,    \* Some(result of categorize_ingredient on the phrase)
  lookup,                 \* direct nutrition calls: Some(what the lookup service answers)
  per_serving_record,     \* Some(per-serving record computed from nutrition_data and servings)
  observing,              \* TRUE when the planning response is to be recorded
  planning_response       \* Some(the capability's planning response), recorded when observing

inputs == << available_ingredients, dietary_restrictions, cuisine, difficulty,
             servings, cooking_time_minutes >>

outputs == << recipe_plan, nutrition_data, shopping_data, final_recipe >>

pipeline_vars == << variant, inputs, outputs, messages, current_agent, errors,
                    node, trace, exception, tool_input, no_tool_calls, returned,
                    api_response >>

tool_vars == << tool_request, tool_response >>

text_vars == << ingredient_text, core_names, ingredient_category >>

nutrition_vars == << lookup, per_serving_record >>

observer_vars == << observing, planning_response >>

vars == << pipeline_vars, tool_vars, text_vars, nutrition_vars, observer_vars >>

\* ------------------------------------------------------------------------
\* build_recipe_graph
\* ------------------------------------------------------------------------
END == "__end__"

entry_point == "planning"

\* a graph wired without the shopping node
edges_without_shopping == { << "planning", "structuring" >>, << "structuring", END >> }

edges == { << "planning", "shopping" >>, << "shopping", "structuring" >>,
           << "structuring", END >> }

\* the node the compiled graph runs after n
next_node(n) == CHOOSE m \in { e[2] : e \in edges } : << n, m >> \in edges

\* ------------------------------------------------------------------------
\* Formatting
\* ------------------------------------------------------------------------
digit_chars == << "0", "1", "2", "3", "4", "5", "6", "7", "8", "9" >>

\* str(n) and f"{n}" for n >= 0
RECURSIVE int_str(_)
int_str(n) ==
  IF n < 10 THEN << digit_chars[n + 1] >>
  ELSE int_str(n \div 10) \o << digit_chars[(n % 10) + 1] >>

\* f"PT{minutes}M"
iso_minutes(minutes) == <<"P", "T">> \o int_str(minutes) \o <<"M">>

\* AIMessage(content=...); rg2.py prefixes the content with the agent's name
ai_message(v, agent_prefix, content) ==
  [type |-> "ai",
   content |-> IF v = "main" THEN << content >> ELSE << agent_prefix, content >>]

\* ------------------------------------------------------------------------
\* planning_agent
\* ------------------------------------------------------------------------
\* a loop that keeps the first get_nutrition_info result
RECURSIVE planning_tool_loop_first_wins(_, _)
planning_tool_loop_first_wins(tool_calls, nutrition) ==
  IF tool_calls = << >>
  THEN [raised |-> FALSE, nutrition_data |-> nutrition]
  ELSE LET tool_call == Head(tool_calls)
       IN IF tool_call.name = "get_nutrition_info"
          THEN IF ~ tool_call.args_ok
               THEN [raised |-> TRUE, nutrition_data |-> nutrition]
               ELSE planning_tool_loop_first_wins(
                      Tail(tool_calls),
                      IF nutrition = None THEN Some(get_nutrition_info(tool_call.lookup))
                      ELSE nutrition)
          ELSE planning_tool_loop_first_wins(Tail(tool_calls), nutrition)

\* for tool_call in response.tool_calls: the last get_nutrition_info result wins;
\* a call whose arguments the tool rejects raises out of the stage
RECURSIVE planning_tool_loop(_, _)
planning_tool_loop(tool_calls, nutrition) ==
  IF tool_calls = << >>
  THEN [raised |-> FALSE, nutrition_data |-> nutrition]
  ELSE LET tool_call == Head(tool_calls)
       IN IF tool_call.name = "get_nutrition_info"
          THEN IF ~ tool_call.args_ok
               THEN [raised |-> TRUE, nutrition_data |-> nutrition]
               ELSE planning_tool_loop(Tail(tool_calls),
                                       Some(get_nutrition_info(tool_call.lookup)))
          ELSE planning_tool_loop(Tail(tool_calls), nutrition)

raise(stage, e) ==
  /\ exception' = Some(e)
  /\ trace' = Append(trace, stage)
  /\ UNCHANGED << variant, inputs, outputs, messages, current_agent, errors, node,
                  tool_input, no_tool_calls, returned, api_response, tool_vars, text_vars, nutrition_vars, observer_vars >>

planning_agent ==
  /\ node = "planning"
  /\ exception = None
  /\ returned = None
  /\ \E response \in PlanningResponses :
       IF response = LLMError
       THEN raise("planning", "llm.invoke")
       ELSE LET loop == planning_tool_loop(response.tool_calls, None)
            IN IF loop.raised
               THEN raise("planning", "get_nutrition_info.invoke")
               ELSE /\ recipe_plan' = Some(response.content)
                    /\ nutrition_data' = loop.nutrition_data
                    /\ messages' = Append(messages,
                                          ai_message(variant, "Planning Agent: ", response.content))
                    /\ current_agent' = "planning"
                    /\ node' = next_node("planning")
                    /\ trace' = Append(trace, "planning")
                    /\ no_tool_calls' = IF response.tool_calls = << >>
                                        THEN no_tool_calls \cup { "planning" }
                                        ELSE no_tool_calls
                    /\ planning_response' = IF observing THEN Some(response)
                                            ELSE planning_response
                    /\ UNCHANGED << variant, inputs, shopping_data, final_recipe, errors,
                                    exception, tool_input, returned, api_response,
                                    tool_vars, text_vars, nutrition_vars, observing >>

\* ------------------------------------------------------------------------
\* shopping_agent
\* ------------------------------------------------------------------------
\* main.py: the tool call is not guarded, an exception of the tool leaves the stage
\* rg2.py : the exception is caught and recorded in errors, the loop goes on
RECURSIVE shopping_tool_loop(_, _, _, _, _)
shopping_tool_loop(v, tool_calls, shopping, errs, input) ==
  IF tool_calls = << >>
  THEN [raised |-> FALSE, shopping_data |-> shopping, errors |-> errs, tool_input |-> input]
  ELSE LET tool_call == Head(tool_calls)
       IN IF tool_call.name = "compare_and_generate_shopping_list"
          THEN IF ~ tool_call.args_ok
               THEN IF v = "main"
                    THEN [raised |-> TRUE, shopping_data |-> shopping, errors |-> errs,
                          tool_input |-> input]
                    ELSE shopping_tool_loop(v, Tail(tool_calls), shopping,
                                            Append(errs, "Shopping tool error"), input)
               ELSE shopping_tool_loop(v, Tail(tool_calls),
                      Some(compare_and_generate_shopping_list(
                             v, tool_call.args.recipe_ingredients,
                             tool_call.args.available_ingredients)),
                      errs, Some(tool_call.args))
          ELSE shopping_tool_loop(v, Tail(tool_calls), shopping, errs, input)

\* the else branch of "if ... response.tool_calls:" (rg2.py only)
no_tool_call_errors(v, tool_calls, errs) ==
  IF v = "rg2" /\ tool_calls = << >>
  THEN Append(errs, "Shopping agent did not call comparison tool")
  ELSE errs

\* a shopping stage without the fallback report
shopping_fallback_missing(shopping) == shopping

\* "if not shopping_data:" / "if shopping_data is None:"
shopping_fallback(shopping) ==
  IF shopping = None THEN Some(empty_shopping_data) ELSE shopping

shopping_agent ==
  /\ node = "shopping"
  /\ exception = None
  /\ returned = None
  /\ \E response \in ShoppingResponses :
       IF response = LLMError
       THEN raise("shopping", "llm.invoke")
       ELSE LET loop == shopping_tool_loop(variant, response.tool_calls, None, errors,
                                           tool_input)
            IN IF loop.raised
               THEN raise("shopping", "compare_and_generate_shopping_list.invoke")
               ELSE /\ shopping_data' = shopping_fallback(loop.shopping_data)
                    /\ errors' = no_tool_call_errors(variant, response.tool_calls, loop.errors)
                    /\ tool_input' = loop.tool_input
                    /\ messages' = Append(messages,
                                          ai_message(variant, "Shopping Agent: ", response.content))
                    /\ current_agent' = "shopping"
                    /\ node' = next_node("shopping")
                    /\ trace' = Append(trace, "shopping")
                    /\ no_tool_calls' = IF response.tool_calls = << >>
                                        THEN no_tool_calls \cup { "shopping" }
                                        ELSE no_tool_calls
                    /\ UNCHANGED << variant, inputs, recipe_plan, nutrition_data, final_recipe,
                                    exception, returned, api_response, tool_vars, text_vars, nutrition_vars, observer_vars >>

\* ------------------------------------------------------------------------
\* structuring_agent
\* ------------------------------------------------------------------------
\* rg2.py: restriction -> schema.org URL
diet_mapping ==
  [r \in { "Vegetarian", "Vegan", "Gluten-free", "Diabetic", "Halal", "Kosher",
           "Low-calorie", "Low-fat", "Low-sodium" } |->
     CASE r = "Vegetarian" -> "https://schema.org/VegetarianDiet"
       [] r = "Vegan" -> "https://schema.org/VeganDiet"
       [] r = "Gluten-free" -> "https://schema.org/GlutenFreeDiet"
       [] r = "Diabetic" -> "https://schema.org/DiabeticDiet"
       [] r = "Halal" -> "https://schema.org/HalalDiet"
       [] r = "Kosher" -> "https://schema.org/KosherDiet"
       [] r = "Low-calorie" -> "https://schema.org/LowCalorieDiet"
       [] r = "Low-fat" -> "https://schema.org/LowFatDiet"
       [] r = "Low-sodium" -> "https://schema.org/LowSaltDiet"]

\* [diet_mapping.get(r, r) for r in dietary_restrictions if r in diet_mapping]
suitable_diets(restrictions) ==
  LET mapped == SelectSeq(restrictions, LAMBDA r : r \in DOMAIN diet_mapping)
  IN [i \in 1..Len(mapped) |-> diet_mapping[mapped[i]]]

\* main.py: the document is assembled by the stage itself
recipe_dict_main(per_serving, shopping) ==
  ("@context" :> "https://schema.org") @@ ("@type" :> "Recipe") @@
  [name |-> << cuisine, " Recipe" >>,
   description |-> "AI-generated recipe",
   author |-> "AI Chef",
   cuisine |-> cuisine,
   difficulty |-> difficulty,
   prepTime |-> iso_minutes(cooking_time_minutes \div 2),
   cookTime |-> iso_minutes(cooking_time_minutes \div 2),
   totalTime |-> iso_minutes(cooking_time_minutes),
   recipeYield |-> int_str(servings),
   recipeIngredient |-> << >>,
   recipeInstructions |-> << >>,
   nutrition |-> per_serving,
   shoppingList |-> shopping.items_to_purchase,
   availableItems |-> shopping.items_available,
   shoppingByCategory |-> shopping.shopping_by_category,
   keywords |-> << cuisine, difficulty >>,
   datePublished |-> "today",
   image |-> "https://via.placeholder.com/800x600"]

\* values the capability may put into the structured output on its own account
invented_nutrition ==
  [calories |-> 99900, protein_g |-> 100, fat_total_g |-> 100,
   carbohydrates_total_g |-> 100, fiber_g |-> 100, sugar_g |-> 100, sodium_mg |-> 100]

invented_items ==
  << [item |-> <<"1", " ", "p", "i", "n", "c", "h", " ", "s", "a", "f", "f", "r", "o", "n">>, category |-> "Spices", status |-> "need_to_purchase"] >>

invented_diets == << "https://schema.org/VeganDiet" >>

\* rg2.py: structured_llm.invoke(messages).model_dump(by_alias=True): a RecipeOutput
\* in which the capability copied the prompt's data or made up its own
StructuredOutputs(per_serving, shopping) ==
  { ("@context" :> "https://schema.org") @@ ("@type" :> "Recipe") @@
    [name |-> "generated name",
     description |-> "generated description",
     author |-> "generated author",
     cuisine |-> cuisine,
     difficulty |-> difficulty,
     prepTime |-> iso_minutes(cooking_time_minutes \div 2),
     cookTime |-> iso_minutes(cooking_time_minutes \div 2),
     totalTime |-> iso_minutes(cooking_time_minutes),
     recipeYield |-> int_str(servings),
     recipeIngredient |-> << "generated ingredient" >>,
     recipeInstructions |-> << "generated step" >>,
     nutrition |-> n,
     suitableForDiet |-> d,
     shoppingList |-> IF copied THEN shopping.items_to_purchase ELSE invented_items,
     availableItems |-> IF copied THEN shopping.items_available ELSE invented_items,
     shoppingByCategory |-> IF copied THEN shopping.shopping_by_category
                            ELSE << [key |-> "Spices", value |-> << <<"1", " ", "p", "i", "n", "c", "h", " ", "s", "a", "f", "f", "r", "o", "n">> >>] >>,
     keywords |-> << "generated keyword" >>,
     datePublished |-> "today",
     image |-> "https://via.placeholder.com/800x600"] :
    n \in { per_serving, invented_nutrition },
    d \in { None, Some(invented_diets) },
    copied \in BOOLEAN }

\* rg2.py: the computed fields written over the capability's document
recipe_dict_rg2(recipe_output, shopping, diets) ==
  LET with_shopping ==
        [recipe_output EXCEPT !.shoppingList = shopping.items_to_purchase,
                              !.availableItems = shopping.items_available,
                              !.shoppingByCategory = shopping.shopping_by_category]
  IN IF diets # << >>
     THEN [with_shopping EXCEPT !.suitableForDiet = Some(diets)]
     ELSE with_shopping

\* a structuring stage that appends a message as the other two stages do
structuring_main_appends_message ==
  LET per_serving == per_serving_nutrition(nutrition_data, servings)
  IN IF shopping_data = None
     THEN raise("structuring", "AttributeError")
     ELSE /\ final_recipe' = Some(recipe_dict_main(per_serving, Get(shopping_data)))
          /\ messages' = Append(messages, ai_message(variant, "Structuring Agent: ", "done"))
          /\ current_agent' = "structuring"
          /\ node' = next_node("structuring")
          /\ trace' = Append(trace, "structuring")
          /\ UNCHANGED << variant, inputs, recipe_plan, nutrition_data, shopping_data,
                          errors, exception, tool_input, no_tool_calls, returned,
                          api_response, tool_vars, text_vars, nutrition_vars, observer_vars >>

structuring_main ==
  LET per_serving == per_serving_nutrition(nutrition_data, servings)
  IN IF shopping_data = None
     THEN \* shopping_data.get(...) on None
          raise("structuring", "AttributeError")
     ELSE /\ final_recipe' = Some(recipe_dict_main(per_serving, Get(shopping_data)))
          /\ current_agent' = "structuring"
          /\ node' = next_node("structuring")
          /\ trace' = Append(trace, "structuring")
          /\ UNCHANGED << variant, inputs, recipe_plan, nutrition_data, shopping_data,
                          messages, errors, exception, tool_input, no_tool_calls, returned,
                          api_response, tool_vars, text_vars, nutrition_vars, observer_vars >>

\* a structuring stage that swallows the failure without recording it
structuring_rg2_unreported ==
  LET per_serving == per_serving_nutrition(nutrition_data, servings)
      shopping == IF shopping_data = None
                  THEN [items_to_purchase |-> << >>, items_available |-> << >>,
                        shopping_by_category |-> << >>]
                  ELSE Get(shopping_data)
      diets == suitable_diets(dietary_restrictions)
  IN \E recipe_output \in { LLMError } \cup StructuredOutputs(per_serving, shopping) :
       /\ IF recipe_output = LLMError
          THEN UNCHANGED << errors, final_recipe >>
          ELSE /\ final_recipe' = Some(recipe_dict_rg2(recipe_output, shopping, diets))
               /\ UNCHANGED errors
       /\ current_agent' = "structuring"
       /\ node' = next_node("structuring")
       /\ trace' = Append(trace, "structuring")
       /\ UNCHANGED << variant, inputs, recipe_plan, nutrition_data, shopping_data,
                       messages, exception, tool_input, no_tool_calls, returned,
                       api_response, tool_vars, text_vars, nutrition_vars, observer_vars >>

\* a structuring stage that assigns its diagnostic to errors instead of appending it
structuring_rg2_overwrites_errors ==
  LET per_serving == per_serving_nutrition(nutrition_data, servings)
      shopping == IF shopping_data = None
                  THEN [items_to_purchase |-> << >>, items_available |-> << >>,
                        shopping_by_category |-> << >>]
                  ELSE Get(shopping_data)
      diets == suitable_diets(dietary_restrictions)
  IN \E recipe_output \in { LLMError } \cup StructuredOutputs(per_serving, shopping) :
       /\ IF recipe_output = LLMError
          THEN /\ errors' = << "Structuring error" >>
               /\ UNCHANGED final_recipe
          ELSE /\ final_recipe' = Some(recipe_dict_rg2(recipe_output, shopping, diets))
               /\ UNCHANGED errors
       /\ current_agent' = "structuring"
       /\ node' = next_node("structuring")
       /\ trace' = Append(trace, "structuring")
       /\ UNCHANGED << variant, inputs, recipe_plan, nutrition_data, shopping_data,
                       messages, exception, tool_input, no_tool_calls, returned,
                       api_response, tool_vars, text_vars, nutrition_vars, observer_vars >>

structuring_rg2 ==
  LET per_serving == per_serving_nutrition(nutrition_data, servings)
      \* state.get('shopping_data') or {}, each field read with a default
      shopping == IF shopping_data = None
                  THEN [items_to_purchase |-> << >>, items_available |-> << >>,
                        shopping_by_category |-> << >>]
                  ELSE Get(shopping_data)
      diets == suitable_diets(dietary_restrictions)
  IN \E recipe_output \in { LLMError } \cup StructuredOutputs(per_serving, shopping) :
       /\ IF recipe_output = LLMError
          THEN /\ errors' = Append(errors, "Structuring error")
               /\ UNCHANGED final_recipe
          ELSE /\ final_recipe' = Some(recipe_dict_rg2(recipe_output, shopping, diets))
               /\ UNCHANGED errors
       /\ current_agent' = "structuring"
       /\ node' = next_node("structuring")
       /\ trace' = Append(trace, "structuring")
       /\ UNCHANGED << variant, inputs, recipe_plan, nutrition_data, shopping_data,
                       messages, exception, tool_input, no_tool_calls, returned, api_response, tool_vars, text_vars, nutrition_vars, observer_vars >>

structuring_agent ==
  /\ node = "structuring"
  /\ exception = None
  /\ returned = None
  /\ IF variant = "main" THEN structuring_main ELSE structuring_rg2

\* ------------------------------------------------------------------------
\* generate_recipe_internal / generate_recipe, and the endpoint around it
\* ------------------------------------------------------------------------
\* RecipeResponse(recipe_id, recipe, generation_time, status); recipe must be a dict
recipe_response(recipe) ==
  IF recipe = None
  THEN [status_code |-> 500, error |-> "Recipe generation failed"]
  ELSE [recipe_id |-> "uuid", recipe |-> Get(recipe), generation_time |-> "now",
        status |-> "success"]

\* return final_state['final_recipe']
generate_recipe_return ==
  /\ node = END
  /\ exception = None
  /\ returned = None
  /\ returned' = Some(final_recipe)
  /\ api_response' = IF variant = "main" THEN Some(recipe_response(final_recipe))
                     ELSE api_response
  /\ UNCHANGED << variant, inputs, outputs, messages, current_agent, errors, node,
                  trace, exception, tool_input, no_tool_calls, tool_vars, text_vars, nutrition_vars, observer_vars >>

\* main.py: an exception of the run becomes HTTP 500 in the endpoint
generate_recipe_failed ==
  /\ variant = "main"
  /\ exception # None
  /\ api_response = None
  /\ api_response' = Some([status_code |-> 500, error |-> "Recipe generation failed"])
  /\ UNCHANGED << variant, inputs, outputs, messages, current_agent, errors, node,
                  trace, exception, tool_input, no_tool_calls, returned, tool_vars, text_vars, nutrition_vars, observer_vars >>

\* ------------------------------------------------------------------------
\* Direct use of the shopping-list tool (main.py: POST /api/v1/shopping-list)
\* ------------------------------------------------------------------------
Ingredients ==
  { <<"2", " ", "c", "u", "p", "s", " ", "r", "i", "c", "e">>, <<"1", " ", "l", "b", " ", "c", "h", "i", "c", "k", "e", "n", " ", "b", "r", "e", "a", "s", "t">>, <<"1", " ", "l", "a", "r", "g", "e", " ", "E", "g", "g">>, <<"t", "o", "m", "a", "t", "o", " ", "s", "a", "u", "c", "e">>,
    <<"o", "l", "i", "v", "e", " ", "o", "i", "l">>, <<"1", " ", "t", "s", "p", " ", "S", "a", "l", "t">>, <<"2", " ", "c", "u", "p", "s">> }

ToolPantries ==
  { <<"r", "i", "c", "e", ",", " ", "o", "n", "i", "o", "n", "s", ",", " ", "g", "a", "r", "l", "i", "c">>, <<"e", "g", "g", "p", "l", "a", "n", "t">>, <<"r", "i", "c", "e", ",">>, <<"S", "a", "l", "t", ",", " ", "O", "i", "l">>, <<"c", "h", "i", "c", "k", "e", "n", " ", "t", "h", "i", "g", "h", "s">>, <<>> }

ToolRequests ==
  [recipe_ingredients : SeqUpTo(Ingredients, MaxIngredients),
   available_ingredients : ToolPantries]

generate_shopping_list_endpoint ==
  /\ tool_request # None
  /\ tool_response = None
  /\ tool_response' = Some(compare_and_generate_shopping_list(
                             variant, Get(tool_request).recipe_ingredients,
                             Get(tool_request).available_ingredients))
  /\ UNCHANGED << pipeline_vars, tool_request, text_vars, nutrition_vars, observer_vars >>

\* ------------------------------------------------------------------------
\* Specifications
\* ------------------------------------------------------------------------
\* no helper has been called directly
no_helper_calls ==
  /\ ingredient_text = << >>
  /\ core_names = << >>
  /\ ingredient_category = None
  /\ lookup = None
  /\ per_serving_record = None

\* initial_state of generate_recipe_internal / generate_recipe
initial_state ==
  /\ recipe_plan = None
  /\ nutrition_data = None
  /\ shopping_data = None
  /\ final_recipe = None
  /\ messages = << >>
  /\ current_agent = "start"
  /\ errors = << >>
  /\ node = entry_point
  /\ trace = << >>
  /\ exception = None
  /\ tool_input = None
  /\ no_tool_calls = { }
  /\ returned = None
  /\ api_response = None
  /\ planning_response = None

Init ==
  /\ variant \in Variants
  /\ available_ingredients \in Pantries
  /\ dietary_restrictions \in DietLists
  /\ cuisine \in Cuisines
  /\ difficulty \in Difficulties
  /\ servings \in 1..MaxServings
  /\ cooking_time_minutes \in CookingTimes
  /\ initial_state
  /\ observing = FALSE
  /\ tool_request = None
  /\ tool_response = None
  /\ no_helper_calls

Next ==
  \/ planning_agent
  \/ shopping_agent
  \/ structuring_agent
  \/ generate_recipe_return
  \/ generate_recipe_failed

Spec == Init /\ [][Next]_vars

\* the shopping-list tool alone, on every request of the bounded sets
InitTools ==
  /\ variant \in Variants
  /\ available_ingredients = <<"r", "i", "c", "e", ",", " ", "o", "n", "i", "o", "n", "s", ",", " ", "g", "a", "r", "l", "i", "c">>
  /\ dietary_restrictions = << >>
  /\ cuisine = "South Indian"
  /\ difficulty = "Medium"
  /\ servings = 2
  /\ cooking_time_minutes = 50
  /\ initial_state
  /\ observing = FALSE
  /\ tool_request \in { Some(r) : r \in ToolRequests }
  /\ tool_response = None
  /\ no_helper_calls

NextTools == generate_shopping_list_endpoint

SpecTools == InitTools /\ [][NextTools]_vars

\* the planning stage alone, with the capability's response kept for inspection
InitPlanning ==
  /\ variant \in Variants
  /\ available_ingredients \in Pantries
  /\ dietary_restrictions \in DietLists
  /\ cuisine \in Cuisines
  /\ difficulty \in Difficulties
  /\ servings \in 1..MaxServings
  /\ cooking_time_minutes \in CookingTimes
  /\ initial_state
  /\ observing = TRUE
  /\ tool_request = None
  /\ tool_response = None
  /\ no_helper_calls

NextPlanning == planning_agent

SpecPlanning == InitPlanning /\ [][NextPlanning]_vars

\* the two helpers alone, on every phrase built from a small vocabulary
MaxPieces == 3
MaxExtractions == 2

\* numbers, stop-set words, ordinary words and spacing, in mixed letter case
Pieces ==
  { <<" ">>, <<"2">>, <<"1", ".", "5">>, <<"C", "u", "p", "s">>, <<"o", "f">>, <<"r", "i", "c", "e">>, <<"T", "o", "m", "a", "t", "o">>, <<"o", "i", "l">>, <<"E", "g", "g">> }

RECURSIVE PhrasesUpTo(_)
PhrasesUpTo(n) ==
  IF n = 0 THEN { << >> }
  ELSE LET shorter == PhrasesUpTo(n - 1)
       IN shorter \cup { s \o p : s \in shorter, p \in Pieces }

Phrases == PhrasesUpTo(MaxPieces)

\* extract_ingredient_name(ingredient_text), then extract_ingredient_name of the result
extract_ingredient_name_call ==
  /\ ingredient_text \in Phrases
  /\ Len(core_names) < MaxExtractions
  /\ core_names' = Append(core_names,
                          extract_ingredient_name(IF core_names = << >> THEN ingredient_text
                                                  ELSE core_names[Len(core_names)]))
  /\ UNCHANGED << pipeline_vars, tool_vars, ingredient_text, ingredient_category,
                  nutrition_vars, observer_vars >>

\* categorize_ingredient(ingredient_text)
categorize_ingredient_call ==
  /\ ingredient_text \in Phrases
  /\ ingredient_category = None
  /\ ingredient_category' = Some(categorize(variant, ingredient_text))
  /\ UNCHANGED << pipeline_vars, tool_vars, ingredient_text, core_names, nutrition_vars, observer_vars >>

InitText ==
  /\ variant \in Variants
  /\ available_ingredients = <<"r", "i", "c", "e", ",", " ", "o", "n", "i", "o", "n", "s", ",", " ", "g", "a", "r", "l", "i", "c">>
  /\ dietary_restrictions = << >>
  /\ cuisine = "South Indian"
  /\ difficulty = "Medium"
  /\ servings = 2
  /\ cooking_time_minutes = 50
  /\ initial_state
  /\ observing = FALSE
  /\ tool_request = None
  /\ tool_response = None
  /\ ingredient_text \in Phrases
  /\ core_names = << >>
  /\ ingredient_category = None
  /\ lookup = None
  /\ per_serving_record = None

NextText ==
  \/ extract_ingredient_name_call
  \/ categorize_ingredient_call

SpecText == InitText /\ [][NextText]_vars

\* the nutrition tool and the per-serving computation alone, on every lookup
\* answer of the bounded set and every number of servings a request may carry
MaxLookupItems == 2
servings_ge == 1
servings_le == 12

NutritionLookups ==
  { [exception |-> TRUE], [status_code |-> 500] }
    \cup { [status_code |-> 200, items |-> its] : its \in SeqUpTo(NutritionItems, MaxLookupItems) }

\* planning_agent's tool loop body: nutrition_data = get_nutrition_info.invoke(args)
get_nutrition_info_call ==
  /\ lookup # None
  /\ nutrition_data = None
  /\ per_serving_record = None
  /\ nutrition_data' = Some(get_nutrition_info(Get(lookup)))
  /\ UNCHANGED << variant, inputs, recipe_plan, shopping_data, final_recipe, messages,
                  current_agent, errors, node, trace, exception, tool_input, no_tool_calls,
                  returned, api_response, tool_vars, text_vars, nutrition_vars, observer_vars >>

\* structuring_agent's first step: the per-serving record
per_serving_call ==
  /\ lookup # None
  /\ per_serving_record = None
  /\ per_serving_record' = Some(per_serving_nutrition(nutrition_data, servings))
  /\ UNCHANGED << pipeline_vars, tool_vars, text_vars, lookup, observer_vars >>

InitNutrition ==
  /\ variant \in Variants
  /\ available_ingredients = <<"r", "i", "c", "e", ",", " ", "o", "n", "i", "o", "n", "s", ",", " ", "g", "a", "r", "l", "i", "c">>
  /\ dietary_restrictions = << >>
  /\ cuisine = "South Indian"
  /\ difficulty = "Medium"
  /\ servings \in servings_ge..servings_le
  /\ cooking_time_minutes = 50
  /\ initial_state
  /\ observing = FALSE
  /\ tool_request = None
  /\ tool_response = None
  /\ ingredient_text = << >>
  /\ core_names = << >>
  /\ ingredient_category = None
  /\ lookup \in { Some(l) : l \in NutritionLookups }
  /\ per_serving_record = None

NextNutrition ==
  \/ get_nutrition_info_call
  \/ per_serving_call

SpecNutrition == InitNutrition /\ [][NextNutrition]_vars

\* ------------------------------------------------------------------------
\* Properties
\* ------------------------------------------------------------------------
stage_order == << "planning", "shopping", "structuring" >>

IsPrefix(s, t) == Len(s) <= Len(t) /\ SubSeq(t, 1, Len(s)) = s

Last(s) == s[Len(s)]

\* C1: every run starts the stages planning, shopping, structuring once each and
\* in that order: the stages started so far are always a prefix of that order, a
\* run whose stages all returned is about to run exactly the next stage of the
\* order (so a stage starts only after the previous one has returned and set
\* current_agent), and a run that reached the end has run all three.
C1_StagesOnceInOrder ==
  /\ IsPrefix(trace, stage_order)
  /\ exception = None =>
       /\ node = IF Len(trace) < Len(stage_order) THEN stage_order[Len(trace) + 1] ELSE END
       /\ current_agent = IF trace = << >> THEN "start" ELSE Last(trace)
  /\ node = END => trace = stage_order
  /\ returned # None => node = END

\* a run went through all three stages and returned
C1_Witness == returned # None /\ trace = stage_order /\ current_agent = "structuring"

\* the five reconciled fields of a recipe document
reconciled_fields(recipe) ==
  [nutrition |-> recipe.nutrition,
   shoppingList |-> recipe.shoppingList,
   availableItems |-> recipe.availableItems,
   shoppingByCategory |-> recipe.shoppingByCategory,
   suitableForDiet |-> DictGet(recipe, "suitableForDiet", None)]

\* the documents the structuring stage can store for the current inputs,
\* nutrition_data and shopping_data, one for each answer of the capability
structuring_documents ==
  IF shopping_data = None THEN { }
  ELSE IF variant = "main"
       THEN { recipe_dict_main(per_serving_nutrition(nutrition_data, servings),
                               Get(shopping_data)) }
       ELSE { recipe_dict_rg2(o, Get(shopping_data), suitable_diets(dietary_restrictions)) :
                o \in StructuredOutputs(per_serving_nutrition(nutrition_data, servings),
                                        Get(shopping_data)) }

\* C2: the reconciled fields of the final recipe are the pipeline's own values:
\* the stored document carries the computed per-serving nutrition, the three
\* shopping fields of shopping_data and no diet URI but the mapped ones, and two
\* runs that differ only in the capability's structuring answer get the same
\* five fields (every document the stage could have stored for another answer
\* agrees with the stored one on them).
C2_ReconciledFieldsComputed ==
  /\ final_recipe # None =>
       LET r == Get(final_recipe)
       IN /\ r.nutrition = per_serving_nutrition(nutrition_data, servings)
          /\ r.shoppingList = Get(shopping_data).items_to_purchase
          /\ r.availableItems = Get(shopping_data).items_available
          /\ r.shoppingByCategory = Get(shopping_data).shopping_by_category
          /\ DictGet(r, "suitableForDiet", None)
               \in { None, Some(suitable_diets(dietary_restrictions)) }
  /\ final_recipe # None =>
       \A other \in structuring_documents :
          reconciled_fields(other) = reconciled_fields(Get(final_recipe))

\* the planning stage stored a failed lookup
nutrition_lookup_failed ==
  nutrition_data # None /\ DictGet(Get(nutrition_data), "error", FALSE)

\* C3: when the nutrition lookup of the planning stage failed, the planning stage
\* still returned, and the nutrition of a final recipe is the fallback record.
C3_FallbackNutritionOnLookupFailure ==
  nutrition_lookup_failed =>
    /\ "planning" \in { trace[i] : i \in 1..Len(trace) }
    /\ recipe_plan # None
    /\ final_recipe # None => Get(final_recipe).nutrition = fallback_nutrition

\* C4: a shopping stage whose capability response holds no tool call stores the
\* empty report, appends one diagnostic to errors and hands over to structuring.
C4_NoToolCallShopping ==
  [][ ("shopping" \in no_tool_calls' /\ "shopping" \notin no_tool_calls) =>
        /\ shopping_data' = Some(empty_shopping_data)
        /\ Len(errors') = Len(errors) + 1
        /\ SubSeq(errors', 1, Len(errors)) = errors
        /\ node' = "structuring"
    ]_vars

\* C5: a run without any tool call that produced a final recipe has empty
\* shoppingList and availableItems, the fallback nutrition and at least two errors.
C5_RunWithoutToolCalls ==
  (returned # None /\ no_tool_calls = { "planning", "shopping" } /\ final_recipe # None) =>
    /\ Get(final_recipe).shoppingList = << >>
    /\ Get(final_recipe).availableItems = << >>
    /\ Get(final_recipe).nutrition = fallback_nutrition
    /\ Len(errors) >= 2

\* C6: a structuring stage that could not build the document appends a
\* diagnostic, leaves final_recipe unset and returns to the graph without an
\* exception; the entry function then returns None, and a finished run without
\* a final recipe has a non-empty errors.
C6_StructuringFailsSoftly ==
  /\ [](/\ (node = END /\ final_recipe = None) => (errors # << >> /\ exception = None)
        /\ (returned # None /\ final_recipe = None) => Get(returned) = None
        /\ (exception # None /\ final_recipe = None /\ shopping_data # None) =>
              Last(trace) # "structuring")
  /\ [][ (trace' = Append(trace, "structuring") /\ final_recipe' = None /\ shopping_data # None) =>
           /\ exception' = None
           /\ node' = END
           /\ Len(errors') = Len(errors) + 1
           /\ SubSeq(errors', 1, Len(errors)) = errors
       ]_vars

\* the entry function returned None after a failed structuring stage
C6_Witness ==
  /\ returned = Some(None)
  /\ trace = stage_order
  /\ errors # << >>
  /\ Last(errors) = "Structuring error"

\* value is an Optional document that holds the errors of the run
carries_errors(value) ==
  /\ value # None
  /\ "errors" \in DOMAIN Get(value)
  /\ Get(value).errors = errors

\* C7: what the entry function returns, and the endpoint's response built from
\* it, carry the accumulated errors.
C7_ReturnCarriesErrors ==
  /\ returned # None => carries_errors(Get(returned))
  /\ (returned # None /\ api_response # None) => carries_errors(api_response)

\* the counts of a report agree with its two lists
report_counts_agree(report) ==
  /\ Len(report.items_to_purchase) + Len(report.items_available) = report.total_items_needed
  /\ report.items_to_buy = Len(report.items_to_purchase)
  /\ report.items_in_stock = Len(report.items_available)

\* C8: in every report of the tool the two lists add up to total_items_needed,
\* which is the number of recipe ingredients passed in, and items_to_buy and
\* items_in_stock are the lengths of the lists; the shopping_data of the pipeline
\* state satisfies the same, the empty report included.
C8_ReportCounts ==
  /\ tool_response # None =>
       /\ report_counts_agree(Get(tool_response))
       /\ Get(tool_response).total_items_needed = Len(Get(tool_request).recipe_ingredients)
  /\ shopping_data # None =>
       /\ report_counts_agree(Get(shopping_data))
       /\ Get(shopping_data).total_items_needed =
            IF tool_input = None THEN 0 ELSE Len(Get(tool_input).recipe_ingredients)

\* the shopping stage stored a report with an item in each list
C8_Witness ==
  /\ shopping_data # None
  /\ tool_input # None
  /\ Get(shopping_data).items_to_buy = 1
  /\ Get(shopping_data).items_in_stock = 1
  /\ Get(shopping_data).total_items_needed = 2

\* the elements of list at the positions where side has the value b, in order
picked(list, side, b) ==
  LET positions == SelectSeq([i \in 1..Len(list) |-> i], LAMBDA i : side[i] = b)
  IN [k \in 1..Len(positions) |-> list[positions[k]]]

item_phrases(items) == [i \in 1..Len(items) |-> items[i].item]

\* C9: the tool partitions its input: there is a way to send every position of
\* recipe_ingredients to one of the two lists such that each list holds exactly
\* the phrases sent to it, unchanged and in input order; the entries of
\* items_to_purchase have status need_to_purchase, those of items_available
\* have status available.
C9_Partition ==
  tool_response # None =>
    LET ingredients == Get(tool_request).recipe_ingredients
        report == Get(tool_response)
    IN /\ \E side \in [1..Len(ingredients) -> BOOLEAN] :
            /\ item_phrases(report.items_to_purchase) = picked(ingredients, side, TRUE)
            /\ item_phrases(report.items_available) = picked(ingredients, side, FALSE)
       /\ \A i \in 1..Len(report.items_to_purchase) :
            report.items_to_purchase[i].status = "need_to_purchase"
       /\ \A i \in 1..Len(report.items_available) :
            report.items_available[i].status = "available"

\* a request with a repeated ingredient and a phrase whose core name differs from
\* it ended with entries in both lists
C9_Witness ==
  /\ tool_response # None
  /\ Get(tool_response).items_to_purchase # << >>
  /\ Get(tool_response).items_available # << >>
  /\ LET ingredients == Get(tool_request).recipe_ingredients
     IN /\ Len(ingredients) = 3
        /\ ingredients[1] = ingredients[3]
        /\ ingredients[1] # ingredients[2]
        /\ \E i \in 1..Len(Get(tool_response).items_to_purchase) :
              extract_ingredient_name(Get(tool_response).items_to_purchase[i].item)
                # Get(tool_response).items_to_purchase[i].item

\* the categories of items in order of first occurrence
first_seen_categories(items) ==
  LET positions == SelectSeq([i \in 1..Len(items) |-> i],
                             LAMBDA i : \A j \in 1..(i - 1) : items[j].category # items[i].category)
  IN [k \in 1..Len(positions) |-> items[positions[k]].category]

\* the phrases of the items of one category, in order
phrases_of_category(items, category) ==
  item_phrases(SelectSeq(items, LAMBDA it : it.category = category))

RECURSIVE sum_of_lengths(_)
sum_of_lengths(d) ==
  IF d = << >> THEN 0 ELSE Len(Head(d).value) + sum_of_lengths(Tail(d))

\* C10: shopping_by_category is the grouping of items_to_purchase by category:
\* its keys are the categories of items_to_purchase in first-seen order, each
\* key holds the phrases of the to-purchase items of that category in input
\* order, no list is empty, no available item is listed, and the lists together
\* are as long as items_to_purchase.
C10_GroupedByCategory ==
  tool_response # None =>
    LET report == Get(tool_response)
        grouped == report.shopping_by_category
        keys == first_seen_categories(report.items_to_purchase)
    IN /\ [k \in 1..Len(grouped) |-> grouped[k].key] = keys
       /\ \A k \in 1..Len(grouped) :
            /\ grouped[k].value = phrases_of_category(report.items_to_purchase, grouped[k].key)
            /\ grouped[k].value # << >>
            /\ \A j \in 1..Len(grouped[k].value) :
                 \A a \in 1..Len(report.items_available) :
                   report.items_available[a].item # grouped[k].value[j]
       /\ sum_of_lengths(grouped) = Len(report.items_to_purchase)

\* a report with two categories in which the first key gathered two different
\* phrases that were not adjacent in the input
C10_Witness ==
  /\ tool_response # None
  /\ LET report == Get(tool_response)
         grouped == report.shopping_by_category
     IN /\ Len(grouped) = 2
        /\ Len(grouped[1].value) = 2
        /\ grouped[1].value[1] # grouped[1].value[2]
        /\ report.items_to_purchase[2].category = grouped[2].key

\* the entries of the parsed pantry that are not empty
nonempty_entries(available_list) == SelectSeq(available_list, LAMBDA e : e # << >>)

\* the phrases of ingredients that are available in available_list, in order
available_phrases(v, ingredients, available_list) ==
  SelectSeq(ingredients, LAMBDA x : is_available(v, x, available_list))

\* C11: an empty pantry entry never makes an ingredient count as available:
\* the available items of a report are the ingredients that are available in
\* the pantry without its empty entries, and with a pantry of empty entries
\* only every ingredient lands in items_to_purchase.
C11_EmptyEntriesNeverMatch ==
  tool_response # None =>
    LET ingredients == Get(tool_request).recipe_ingredients
        available_list == parse_available_list(Get(tool_request).available_ingredients)
        report == Get(tool_response)
    IN /\ item_phrases(report.items_available) =
            available_phrases(variant, ingredients, nonempty_entries(available_list))
       /\ nonempty_entries(available_list) = << >> =>
            /\ report.items_available = << >>
            /\ item_phrases(report.items_to_purchase) = ingredients

\* a occurs in b as a contiguous run of characters
occurs_in(a, b) ==
  \E before \in 0..Len(b) :
     /\ before + Len(a) <= Len(b)
     /\ \A k \in 1..Len(a) : b[before + k] = a[k]

\* some pantry entry contains the core name of phrase or is contained in it
matches_some_entry(phrase, entries) ==
  LET core == extract_ingredient_name(phrase)
  IN \E a \in 1..Len(entries) : occurs_in(core, entries[a]) \/ occurs_in(entries[a], core)

\* C12: in main.py's tool an ingredient is reported available exactly when some
\* pantry entry (comma-split, trimmed, lower-cased) contains its core name or is
\* contained in it, both as whole strings; so the core name "egg" is available
\* with the pantry "eggplant"; every other ingredient is need_to_purchase.
C12_WholeStringContainment ==
  (variant = "main" /\ tool_response # None) =>
    LET ingredients == Get(tool_request).recipe_ingredients
        entries == parse_available_list(Get(tool_request).available_ingredients)
        report == Get(tool_response)
    IN /\ item_phrases(report.items_available) =
            SelectSeq(ingredients, LAMBDA x : matches_some_entry(x, entries))
       /\ item_phrases(report.items_to_purchase) =
            SelectSeq(ingredients, LAMBDA x : ~ matches_some_entry(x, entries))
       /\ \A i \in 1..Len(report.items_to_purchase) :
            report.items_to_purchase[i].status = "need_to_purchase"
       /\ \A i \in 1..Len(ingredients) :
            (extract_ingredient_name(ingredients[i]) = <<"e", "g", "g">> /\ entries = << <<"e", "g", "g", "p", "l", "a", "n", "t">> >>)
              => \E a \in 1..Len(report.items_available) :
                    report.items_available[a].item = ingredients[i]

\* main.py's tool with the pantry "eggplant": the egg phrase is reported
\* available and an ingredient found in no entry is to purchase
C12_Witness ==
  /\ variant = "main"
  /\ tool_response # None
  /\ Get(tool_request).available_ingredients = <<"e", "g", "g", "p", "l", "a", "n", "t">>
  /\ Get(tool_request).recipe_ingredients = << <<"1", " ", "l", "a", "r", "g", "e", " ", "E", "g", "g">>, <<"o", "l", "i", "v", "e", " ", "o", "i", "l">> >>
  /\ item_phrases(Get(tool_response).items_available) = << <<"1", " ", "l", "a", "r", "g", "e", " ", "E", "g", "g">> >>
  /\ item_phrases(Get(tool_response).items_to_purchase) = << <<"o", "l", "i", "v", "e", " ", "o", "i", "l">> >>

\* the phrase consists of whitespace, numbers and stop-set words only
every_token_dropped(text) ==
  \A w \in { str_split(str_lower(text))[i] : i \in 1..Len(str_split(str_lower(text))) } :
     str_isdigit(str_remove_dots(w)) \/ w \in quantity_words

\* C13: extract_ingredient_name never returns an empty string, whatever the
\* phrase (the empty phrase, a whitespace-only phrase and a phrase of numbers
\* and stop-set words included); when every token is dropped the result is the
\* lower-cased original phrase.
C13_CoreNameNeverEmpty ==
  core_names # << >> =>
    /\ core_names[1] # << >>
    /\ every_token_dropped(ingredient_text) => core_names[1] = str_lower(ingredient_text)

\* C14: extract_ingredient_name is idempotent: applied to its own result it
\* returns that result again, also when the phrase holds nothing but numbers
\* and stop-set words.
C14_ExtractIdempotent ==
  \A n \in 2..Len(core_names) : core_names[n] = core_names[n - 1]

\* the helper ran twice on a phrase of numbers and stop-set words in mixed case
C14_Witness ==
  /\ Len(core_names) = 2
  /\ every_token_dropped(ingredient_text)
  /\ str_split(ingredient_text) # << >>
  /\ core_names[1] # ingredient_text

\* the category names in the order of the table
category_names ==
  << "Produce", "Grains", "Dairy", "Proteins", "Spices", "Oils & Condiments" >>

\* the table rows one of whose keywords occurs in the lower-cased phrase
rows_hit(text) ==
  { i \in 1..Len(categories) :
      \E k \in 1..Len(categories[i].keywords) :
         occurs_in(categories[i].keywords[k], str_lower(text)) }

\* C15: categorize_ingredient is total and first-match-wins: the result is one
\* of the six category names or "Other"; it is the earliest category of the
\* table one of whose keywords occurs in the lower-cased phrase, "Other" exactly
\* when no keyword occurs; a phrase with "tomato" and "oil" or "sauce" is
\* Produce; both files give this same result.
C15_FirstCategoryWins ==
  ingredient_category # None =>
    LET result == Get(ingredient_category)
        hit == rows_hit(ingredient_text)
    IN /\ result \in { category_names[i] : i \in 1..Len(category_names) } \cup { "Other" }
       /\ (result = "Other") <=> (hit = { })
       /\ hit # { } =>
            result = category_names[CHOOSE i \in hit : \A j \in hit : i <= j]
       /\ ( /\ occurs_in(<<"t", "o", "m", "a", "t", "o">>, str_lower(ingredient_text))
            /\ \/ occurs_in(<<"o", "i", "l">>, str_lower(ingredient_text))
               \/ occurs_in(<<"s", "a", "u", "c", "e">>, str_lower(ingredient_text)) )
            => result = "Produce"

\* test/rg2.py categorised a phrase that holds "oil" before "Tomato"
C15_Witness ==
  /\ variant = "rg2"
  /\ ingredient_category = Some("Produce")
  /\ rows_hit(ingredient_text) = { 1, 6 }
  /\ ingredient_text[1] = "o"

\* the sum of one field over the items, a missing field counting as 0
field_total(items, key) ==
  LET amount(i) == IF key \in DOMAIN items[i] THEN items[i][key] ELSE 0
      partial[n \in 0..Len(items)] == IF n = 0 THEN 0 ELSE partial[n - 1] + amount(n)
  IN partial[Len(items)]

\* the lookup answered with status 200 and item records
lookup_succeeded(l) == "status_code" \in DOMAIN l /\ l.status_code = 200

\* C16: on a successful lookup get_nutrition_info returns success = true,
\* items_count = the number of item records and totals with exactly the seven
\* nutrient keys, each the sum of that field over the items with a missing
\* field counted as 0 (no items: all totals 0, items_count 0); on a failed
\* lookup the result never has success = true.
C16_NutritionTotals ==
  (lookup # None /\ nutrition_data # None) =>
    LET l == Get(lookup)
        result == Get(nutrition_data)
    IN IF lookup_succeeded(l)
       THEN /\ "success" \in DOMAIN result /\ result.success = TRUE
            /\ result.items_count = Len(l.items)
            /\ DOMAIN result.nutrition =
                 { "calories", "protein_g", "fat_total_g", "carbohydrates_total_g",
                   "fiber_g", "sugar_g", "sodium_mg" }
            /\ \A k \in DOMAIN result.nutrition :
                 result.nutrition[k] = field_total(l.items, k)
            /\ l.items = << >> =>
                 /\ result.items_count = 0
                 /\ \A k \in DOMAIN result.nutrition : result.nutrition[k] = 0
       ELSE ~ ("success" \in DOMAIN result /\ result.success = TRUE)

\* the tool summed two different item records, one of them without protein_g
C16_Witness ==
  /\ lookup # None
  /\ nutrition_data # None
  /\ lookup_succeeded(Get(lookup))
  /\ Len(Get(lookup).items) = 2
  /\ Get(lookup).items[1] # Get(lookup).items[2]
  /\ "protein_g" \notin DOMAIN Get(lookup).items[2]
  /\ Get(nutrition_data).nutrition.calories = 13151
  /\ Get(nutrition_data).nutrition.protein_g = 270

\* a successful nutrition result is stored
stored_success ==
  /\ nutrition_data # None
  /\ "success" \in DOMAIN Get(nutrition_data)
  /\ Get(nutrition_data).success = TRUE

abs(n) == IF n < 0 THEN 0 - n ELSE n

\* C17: with a successful nutrition result stored, the per-serving value of
\* every nutrient is total / servings rounded to 2 decimal places, for every
\* servings in 1..12: in hundredths, per-serving * servings is within
\* servings / 2 of the total (0.005 * servings); with no successful result
\* stored (unset or failed) the per-serving record is the fixed fallback
\* record, whatever servings is.
C17_PerServingRounded ==
  per_serving_record # None =>
    LET record == Get(per_serving_record)
    IN IF stored_success
       THEN LET total == Get(nutrition_data).nutrition
            IN /\ DOMAIN record = DOMAIN total
               /\ \A k \in DOMAIN total :
                    2 * abs(record[k] * servings - total[k]) <= servings
       ELSE record = [calories |-> 35000, protein_g |-> 1500, fat_total_g |-> 1200,
                      carbohydrates_total_g |-> 4500, fiber_g |-> 500, sugar_g |-> 300,
                      sodium_mg |-> 40000]

\* twelve servings of a summed total that does not divide evenly
C17_Witness ==
  /\ per_serving_record # None
  /\ stored_success
  /\ servings = 12
  /\ Get(nutrition_data).items_count = 2
  /\ Get(per_serving_record).calories * servings # Get(nutrition_data).nutrition.calories

\* a field that is set keeps its value, and a field changes only in a step of
\* the stage that owns it
fields_set_by_own_stage ==
  /\ recipe_plan # None => recipe_plan' = recipe_plan
  /\ nutrition_data # None => nutrition_data' = nutrition_data
  /\ shopping_data # None => shopping_data' = shopping_data
  /\ final_recipe # None => final_recipe' = final_recipe
  /\ recipe_plan' # recipe_plan => node = "planning" /\ node' = "shopping"
  /\ nutrition_data' # nutrition_data => node = "planning" /\ node' = "shopping"
  /\ shopping_data' # shopping_data => node = "shopping" /\ node' = "structuring"
  /\ final_recipe' # final_recipe => node = "structuring" /\ node' = END

\* C18 as claimed: each of recipe_plan, nutrition_data, shopping_data and
\* final_recipe changes exactly once from unset to its final value, in stage
\* order: a run that reached the end has set all four, and no field is set
\* while a field of an earlier stage is still unset.
C18_FieldsSetExactlyOnce ==
  /\ [] ( /\ node = END =>
               /\ recipe_plan # None
               /\ nutrition_data # None
               /\ shopping_data # None
               /\ final_recipe # None
          /\ shopping_data # None => recipe_plan # None /\ nutrition_data # None
          /\ final_recipe # None => shopping_data # None )
  /\ [][fields_set_by_own_stage]_vars

\* C18 amended: each of the four fields changes at most once, from unset to its
\* final value, in a step of its own stage, and never afterwards; recipe_plan
\* and shopping_data are set in every run that reaches the end, shopping_data
\* only after recipe_plan and final_recipe only after shopping_data;
\* nutrition_data and final_recipe may stay unset to the end.
C18_FieldsSetAtMostOnce ==
  /\ [] ( /\ node = END => recipe_plan # None /\ shopping_data # None
          /\ shopping_data # None => recipe_plan # None
          /\ final_recipe # None => shopping_data # None
          /\ nutrition_data # None => recipe_plan # None )
  /\ [][fields_set_by_own_stage]_vars

\* a run reached the end with a recipe although no nutrition result was stored
C18_Witness ==
  /\ node = END
  /\ recipe_plan # None
  /\ nutrition_data = None
  /\ shopping_data # None
  /\ final_recipe # None

\* C19: errors is append-only over the whole run: it is empty before the first
\* stage, and in every step the earlier contents are an unchanged prefix of
\* the new contents; nothing is removed, reordered or cleared.
C19_ErrorsAppendOnly ==
  /\ [] (trace = << >> => errors = << >>)
  /\ [][IsPrefix(errors, errors')]_vars

\* the shopping stage and then the structuring stage each added an entry
C19_Witness ==
  /\ node = END
  /\ Len(errors) = 2
  /\ errors[2] = "Structuring error"
  /\ errors[1] # errors[2]

\* the diet URIs of the restrictions that the lookup table knows, in order
mapped_diet_uris(restrictions) ==
  LET known(i) == restrictions[i] \in DOMAIN diet_mapping
      uris[n \in 0..Len(restrictions)] ==
        IF n = 0 THEN << >>
        ELSE IF known(n) THEN Append(uris[n - 1], diet_mapping[restrictions[n]])
             ELSE uris[n - 1]
  IN uris[Len(restrictions)]

\* C20: the final recipe's suitableForDiet comes from dietary_restrictions
\* alone: it is the sequence of diet URIs of the restrictions that have an
\* entry in the lookup table, in their order, the others dropped; when no
\* restriction is mapped the final recipe carries no diet URI at all.
C20_DietsFromRestrictions ==
  final_recipe # None =>
    LET diets == DictGet(Get(final_recipe), "suitableForDiet", None)
        expected == mapped_diet_uris(dietary_restrictions)
    IN IF expected = << >>
       THEN diets = None \/ diets = Some(<< >>)
       ELSE diets = Some(expected)

\* C21: no stage raises past its own boundary when the nutrition lookup fails,
\* when the capability omits the tool call or when the bound tool fails during
\* execution: the only exception that may leave a stage is a failure of the
\* capability call itself, so that a run whose capability calls return goes
\* through all three stages to the end.
C21_StagesAbsorbToolFailures ==
  exception # None => Get(exception) = "llm.invoke"

\* the stage that a step runs, None for a step that is not a stage
stage_of_step == IF trace' = trace THEN None ELSE Some(Last(trace'))

\* what a step of each stage leaves alone
stage_frame ==
  /\ inputs' = inputs
  /\ stage_of_step = Some("planning") =>
       /\ shopping_data' = shopping_data
       /\ final_recipe' = final_recipe
       /\ errors' = errors
  /\ stage_of_step = Some("shopping") =>
       /\ recipe_plan' = recipe_plan
       /\ nutrition_data' = nutrition_data
       /\ final_recipe' = final_recipe
  /\ stage_of_step = Some("structuring") =>
       /\ recipe_plan' = recipe_plan
       /\ nutrition_data' = nutrition_data
       /\ shopping_data' = shopping_data
       /\ messages' = messages
  /\ stage_of_step = None =>
       /\ outputs' = outputs
       /\ messages' = messages
       /\ current_agent' = current_agent
       /\ errors' = errors

nutrition_call_positions(response) ==
  { i \in 1..Len(response.tool_calls) : response.tool_calls[i].name = "get_nutrition_info" }

\* C23: after the planning stage recipe_plan is the capability's free text, and
\* nutrition_data is set exactly when the response held a get_nutrition_info
\* call: with none (no tool call, or calls of other tools only) it stays unset,
\* with several it is the result of the last one in response order, also when
\* an earlier call succeeded and the last one failed.
C23_LastNutritionCallWins ==
  planning_response # None =>
    LET response == Get(planning_response)
        positions == nutrition_call_positions(response)
    IN /\ recipe_plan = Some(response.content)
       /\ (nutrition_data # None) <=> (positions # { })
       /\ positions # { } =>
            LET last == CHOOSE i \in positions : \A j \in positions : j <= i
            IN nutrition_data = Some(get_nutrition_info(response.tool_calls[last].lookup))

\* planning saw a successful nutrition call followed by a failed one and kept
\* the failure
C23_Witness ==
  /\ planning_response # None
  /\ Len(Get(planning_response).tool_calls) = 2
  /\ nutrition_call_positions(Get(planning_response)) = { 1, 2 }
  /\ lookup_succeeded(Get(planning_response).tool_calls[1].lookup)
  /\ ~ lookup_succeeded(Get(planning_response).tool_calls[2].lookup)
  /\ nutrition_data # None
  /\ ~ nutrition_succeeded(nutrition_data)

\* the text is one word with no spacing around it
single_word(text) == str_split(text) = << text >>

\* C24 as claimed: the word-level check of test/rg2.py is stricter than the
\* whole-string check of main.py: every ingredient that rg2.py's tool reports
\* available is available by main.py's check on the same pantry text.
C24_WordLevelStricter ==
  (variant = "rg2" /\ tool_response # None) =>
    LET entries == parse_available_list(Get(tool_request).available_ingredients)
        available == Get(tool_response).items_available
    IN \A i \in 1..Len(available) : matches_some_entry(available[i].item, entries)

\* C24 amended: for an ingredient whose core name is a single word and a
\* pantry whose entries are single words or empty, an ingredient that rg2.py's
\* tool reports available is available by main.py's check as well.
C24_WordLevelStricterOnSingleWords ==
  (variant = "rg2" /\ tool_response # None) =>
    LET entries == parse_available_list(Get(tool_request).available_ingredients)
        available == Get(tool_response).items_available
    IN (\A e \in 1..Len(entries) : entries[e] = << >> \/ single_word(entries[e])) =>
         \A i \in 1..Len(available) :
            single_word(extract_ingredient_name(available[i].item)) =>
              /\ matches_some_entry(available[i].item, entries)
              /\ is_available_main(available[i].item, entries)

\* rg2.py's tool found a one-word core name among one-word pantry entries and
\* left another ingredient to purchase
C24_Witness ==
  /\ variant = "rg2"
  /\ tool_response # None
  /\ Get(tool_request).available_ingredients = <<"r", "i", "c", "e", ",", " ", "o", "n", "i", "o", "n", "s", ",", " ", "g", "a", "r", "l", "i", "c">>
  /\ item_phrases(Get(tool_response).items_available) = << <<"2", " ", "c", "u", "p", "s", " ", "r", "i", "c", "e">> >>
  /\ Len(Get(tool_response).items_to_purchase) = 2

\* C25: test/rg2.py's shopping stage never stores the synthesized empty report
\* silently: a shopping step that ends with the fallback report because the
\* shopping-list tool produced no result (no tool call, calls of other tools
\* only, or the tool raising) adds at least one entry to errors.
C25_FallbackReportIsReported ==
  [][ ( /\ variant = "rg2"
        /\ stage_of_step = Some("shopping")
        /\ exception' = None
        /\ tool_input' = None
        /\ shopping_data' = Some(empty_shopping_data) )
      => Len(errors') > Len(errors) ]_vars

\* the number written in decimal digits
RECURSIVE digits_value(_)
digits_value(text) ==
  IF text = << >> THEN 0
  ELSE 10 * digits_value(SubSeq(text, 1, Len(text) - 1))
         + (CHOOSE d \in 0..9 : digit_chars[d + 1] = text[Len(text)])

\* the minutes of an ISO-8601 duration of the form PT<n>M
duration_minutes(duration) == digits_value(SubSeq(duration, 3, Len(duration) - 1))

\* C26: in main.py's final recipe the minutes of prepTime plus the minutes of
\* cookTime are the minutes of totalTime, and totalTime is cooking_time_minutes.
C26_PrepPlusCookIsTotal ==
  (variant = "main" /\ final_recipe # None) =>
    LET recipe == Get(final_recipe)
    IN /\ SubSeq(recipe.totalTime, 1, 2) = <<"P", "T">>
       /\ duration_minutes(recipe.totalTime) = cooking_time_minutes
       /\ duration_minutes(recipe.prepTime) + duration_minutes(recipe.cookTime)
            = duration_minutes(recipe.totalTime)

=============================================================================
